---- MODULE Spec2Model ----
(***************************************************************************)
(* Dynamic loading of proto modules from a FileDescriptorSet               *)
(* (intrinsic/executive/code/code_execution.py).                           *)
(*                                                                         *)
(* Strings are sequences of tokens: a token is a word ("dep", "proto",     *)
(* "_pb2") or one of the separators "." and "/", so that str.replace,      *)
(* str.endswith and str.split act on them as they act on the characters.   *)
(* The Live Registry is the default descriptor pool (pool) together with   *)
(* the import cache (sys_modules).                                         *)
(***************************************************************************)
EXTENDS Naturals, Sequences, FiniteSets, TLC

VARIABLES pool, sys_modules, thr, nreq, added, synth

vars == <<pool, sys_modules, thr, nreq, added, synth>>

(***************************************************************************)
(* Bounds.                                                                 *)
(***************************************************************************)
\* Top-level requests (load, decode, encode) issued in one behaviour.
MaxRequests == 4
\* Nested import_from_file_descriptor_set calls before the interpreter
\* raises RecursionError (sys.getrecursionlimit(), scaled down).
MaxDepth == 5

Threads == {"t1", "t2"}

(***************************************************************************)
(* str helpers.                                                            *)
(***************************************************************************)
StartsWith(s, prefix) ==
  /\ Len(prefix) <= Len(s)
  /\ SubSeq(s, 1, Len(prefix)) = prefix

\* The suffix is not looked at.
EndsWithAlways(s, suffix) == TRUE

EndsWith(s, suffix) ==
  /\ Len(suffix) <= Len(s)
  /\ SubSeq(s, Len(s) - Len(suffix) + 1, Len(s)) = suffix

\* str.replace(old, new): every non-overlapping occurrence, left to right.
RECURSIVE Replace(_, _, _)
Replace(s, old, new) ==
  IF s = <<>> THEN <<>>
  ELSE IF StartsWith(s, old)
       THEN new \o Replace(SubSeq(s, Len(old) + 1, Len(s)), old, new)
       ELSE <<Head(s)>> \o Replace(Tail(s), old, new)

\* s.split(sep)[-1] for a one-token separator.
RECURSIVE LastSegment(_, _)
LastSegment(s, sep) ==
  IF s = <<>> THEN <<>>
  ELSE IF s[Len(s)] = sep THEN <<>>
       ELSE LastSegment(SubSeq(s, 1, Len(s) - 1), sep) \o <<s[Len(s)]>>

\* Converts "foo/bar/baz.proto" -> "foo.bar.baz_pb2"
_to_proto_module(proto_filename) ==
  Replace(Replace(proto_filename, <<".", "proto">>, <<"_pb2">>), <<"/">>, <<".">>)

\* Converts "foo.bar.baz_pb2" -> "foo/bar/baz.proto"
_to_proto_filename(proto_module) ==
  Replace(Replace(proto_module, <<".">>, <<"/">>), <<"_pb2">>, <<".", "proto">>)

_proto_full_name(pkg, symbol_name) ==
  IF pkg = <<>> THEN <<symbol_name>> ELSE pkg \o <<".">> \o <<symbol_name>>

(***************************************************************************)
(* FileDescriptorProto: name, package, the four lists of top-level         *)
(* symbols, dependency, and refs, the full names its fields refer to       *)
(* (type_name), which stand for the definition itself.                     *)
(***************************************************************************)
File(name, package, message_type, enum_type, dependency, refs) ==
  [name |-> name, package |-> package, message_type |-> message_type,
   enum_type |-> enum_type, service |-> <<>>, extension |-> <<>>,
   dependency |-> dependency, refs |-> refs]

\* The symbols in the order the code visits them: message_type, enum_type,
\* service, extension.
SymbolFields(file) ==
  file.message_type \o file.enum_type \o file.service \o file.extension

FullNames(file) ==
  {_proto_full_name(file.package, SymbolFields(file)[i]) :
     i \in 1..Len(SymbolFields(file))}

Range(s) == {s[i] : i \in 1..Len(s)}

(***************************************************************************)
(* The descriptor pool (google.protobuf.descriptor_pool.Default()): a set  *)
(* of FileDescriptorProtos with distinct names and distinct symbols.       *)
(***************************************************************************)
PoolNames(p) == {f.name : f \in p}

PoolSymbols(p) == UNION {FullNames(f) : f \in p}

FindFileByName(p, name) == CHOOSE f \in p : f.name = name

\* descriptor_pool.Default().FindFileContainingSymbol(full_name); KeyError
\* when no file of the pool declares the symbol.
HasSymbol(p, full_name) == full_name \in PoolSymbols(p)

FindFileContainingSymbol(p, full_name) ==
  CHOOSE f \in p : full_name \in FullNames(f)

\* Whether descriptor_pool.Default().Add(file) builds the file.  A file whose
\* name is in the pool is accepted only when it is the very file the pool
\* holds (then Add changes nothing).  A new file needs every dependency in
\* the pool, no symbol that another file of the pool declares, and every
\* type its fields refer to declared by itself or by a direct dependency.
PoolAccepts(p, file) ==
  IF file.name \in PoolNames(p)
  THEN file \in p
  ELSE /\ Range(file.dependency) \subseteq PoolNames(p)
       /\ FullNames(file) \cap PoolSymbols(p) = {}
       /\ file.refs \subseteq
            (FullNames(file) \cup
             UNION {FullNames(FindFileByName(p, d)) : d \in Range(file.dependency)})

PoolAdd(p, file) == p \cup {file}

(***************************************************************************)
(* The import system: sys.modules.  A module is its name, its DESCRIPTOR   *)
(* (the FileDescriptor it was built from) and its identity id: 0 for a     *)
(* module compiled into the process, and k for the k-th module made from   *)
(* the file of that name.                                                  *)
(***************************************************************************)
Module(name, file, id) == [name |-> name, DESCRIPTOR |-> file, id |-> id]

ModuleNames(mods) == {m.name : m \in mods}

\* The cache check left out: the regular import never finds a module.
ImportableNever(mods, module_name) == FALSE

\* importlib.import_module(module_name) finds the module.
Importable(mods, module_name) == module_name \in ModuleNames(mods)

\* The name is not looked at: some module of the cache is returned.
ImportAnyModule(mods, module_name) == CHOOSE m \in mods : m.name # module_name

import_module(mods, module_name) == CHOOSE m \in mods : m.name = module_name

\* The module is not put into sys.modules.
SetModuleLost(mods, module) == mods

\* sys.modules is replaced by a cache of the new module alone.
SetModuleOnly(mods, module) == {module}

\* sys.modules[module.__name__] = module
SetModule(mods, module) == {m \in mods : m.name # module.name} \cup {module}

(***************************************************************************)
(* dict helpers: a dict is a function on its keys.                         *)
(***************************************************************************)
EmptyDict == [k \in {} |-> <<>>]

DictSet(d, k, v) == (k :> v) @@ d

(***************************************************************************)
(* _create_symbol_to_file                                                  *)
(***************************************************************************)
BundleSymbols(file_descriptor_set) ==
  UNION {FullNames(file_descriptor_set[i]) : i \in 1..Len(file_descriptor_set)}

\* The pool is not asked: no symbol of the set is known.
SymbolsUnknown(file_descriptor_set, p) == EmptyDict

\* Every symbol of the set that the pool knows, with the name of the pool's
\* file that declares it.  The entry of a symbol does not depend on the file
\* of the set it is met in, so the order of the loops does not matter.
_create_symbol_to_file(file_descriptor_set, p) ==
  [full_name \in {s \in BundleSymbols(file_descriptor_set) : HasSymbol(p, s)} |->
     FindFileContainingSymbol(p, full_name).name]

(***************************************************************************)
(* _create_default_paths                                                   *)
(***************************************************************************)
\* The first symbol found decides, and a later one is not compared with it.
DefaultPathFirstHit(file, symbol_to_file, i, default_path_for_file) ==
  LET hits == {k \in i..Len(SymbolFields(file)) :
                 _proto_full_name(file.package, SymbolFields(file)[k])
                   \in DOMAIN symbol_to_file}
      k0 == CHOOSE k \in hits : \A j \in hits : k <= j
  IN [raised |-> FALSE,
      path |-> IF default_path_for_file # <<>> THEN default_path_for_file
               ELSE IF hits = {} THEN <<>>
               ELSE symbol_to_file[_proto_full_name(file.package,
                                                    SymbolFields(file)[k0])]]

\* The inner loops over one file's symbols, from symbol i on, with
\* default_path_for_file as it stands (<<>> is the empty string).
RECURSIVE DefaultPathForFile(_, _, _, _)
DefaultPathForFile(file, symbol_to_file, i, default_path_for_file) ==
  IF i > Len(SymbolFields(file))
  THEN [raised |-> FALSE, path |-> default_path_for_file]
  ELSE LET full_name == _proto_full_name(file.package, SymbolFields(file)[i])
       IN IF full_name \in DOMAIN symbol_to_file
          THEN LET path == symbol_to_file[full_name]
                   first == IF default_path_for_file = <<>>
                            THEN path ELSE default_path_for_file
               IN IF first # path
                  THEN [raised |-> TRUE, path |-> first]
                  ELSE DefaultPathForFile(file, symbol_to_file, i + 1, first)
          ELSE DefaultPathForFile(file, symbol_to_file, i + 1,
                                  default_path_for_file)

\* The outer loop, from file i on, with path_to_default_path as it stands.
RECURSIVE DefaultPathsFrom(_, _, _, _)
DefaultPathsFrom(file_descriptor_set, symbol_to_file, i, path_to_default_path) ==
  IF i > Len(file_descriptor_set)
  THEN [raised |-> "", dict |-> path_to_default_path]
  ELSE LET file == file_descriptor_set[i]
           found == DefaultPathForFile(file, symbol_to_file, 1, <<>>)
           default_path_for_file ==
             IF found.path = <<>> THEN file.name ELSE found.path
       IN IF found.raised
          THEN [raised |-> "TypeError", dict |-> path_to_default_path]
          ELSE DefaultPathsFrom(
                 file_descriptor_set, symbol_to_file, i + 1,
                 DictSet(DictSet(path_to_default_path, file.name,
                                 default_path_for_file),
                         default_path_for_file, default_path_for_file))

_create_default_paths(file_descriptor_set, symbol_to_file) ==
  DefaultPathsFrom(file_descriptor_set, symbol_to_file, 1, EmptyDict)

(***************************************************************************)
(* _create_compatible_file_descriptor_set                                  *)
(***************************************************************************)
\* path_to_default_path[key] raises KeyError for a key it does not hold.
CompatibleKeys(file_descriptor_set) ==
  UNION {{file_descriptor_set[i].name} \cup Range(file_descriptor_set[i].dependency) :
           i \in 1..Len(file_descriptor_set)}

\* The file's own name is rewritten and its dependencies are left alone.
CompatibleFileNameOnly(file, path_to_default_path) ==
  [file EXCEPT !.name = path_to_default_path[file.name]]

CompatibleFile(file, path_to_default_path) ==
  [file EXCEPT
     !.name = path_to_default_path[file.name],
     !.dependency = [i \in 1..Len(file.dependency) |->
                       path_to_default_path[file.dependency[i]]]]

\* A file with a path that path_to_default_path does not hold is left as it
\* is, and nothing is raised.
CompatibleSetWherePossible(new_file_descriptor_set, path_to_default_path) ==
  [raised |-> "",
   set |-> [i \in 1..Len(new_file_descriptor_set) |->
              IF CompatibleKeys(<<new_file_descriptor_set[i]>>)
                   \subseteq DOMAIN path_to_default_path
              THEN CompatibleFile(new_file_descriptor_set[i], path_to_default_path)
              ELSE new_file_descriptor_set[i]]]

_create_compatible_file_descriptor_set(new_file_descriptor_set, path_to_default_path) ==
  IF CompatibleKeys(new_file_descriptor_set) \subseteq DOMAIN path_to_default_path
  THEN [raised |-> "",
        set |-> [i \in 1..Len(new_file_descriptor_set) |->
                   CompatibleFile(new_file_descriptor_set[i], path_to_default_path)]]
  ELSE [raised |-> "KeyError", set |-> new_file_descriptor_set]

(***************************************************************************)
(* The files and the file descriptor sets the requests are drawn from.     *)
(***************************************************************************)
Path1(a) == <<a, ".", "proto">>
Path2(a, b) == <<a, "/", b, ".", "proto">>

IP == <<"ip">>
PKG == <<"pkg">>
Sym(pkg, name) == _proto_full_name(pkg, name)

\* Compiled into the process and imported before the first request.
LivePoint == File(Path2("m", "pt"), IP, <<"Point">>, <<>>, <<>>, {})
LiveRef == File(Path2("m", "ob"), IP, <<"Ref">>, <<>>, <<>>, {})
BuildTimeFiles == {LivePoint, LiveRef}

FDep == File(Path1("dep"), PKG, <<"Base">>, <<>>, <<>>, {})
FMain == File(Path1("main"), PKG, <<"Main">>, <<>>, <<Path1("dep")>>,
              {Sym(PKG, "Base")})
FMid == File(Path1("mid"), PKG, <<"Mid">>, <<"Kind">>, <<Path1("dep")>>,
             {Sym(PKG, "Base")})
FTop == File(Path1("top"), PKG, <<"Top">>, <<>>, <<Path1("main"), Path1("mid")>>,
             {Sym(PKG, "Main"), Sym(PKG, "Mid")})
\* A field of an undeclared type: the pool cannot build the file.
FBad == File(Path1("bad"), PKG, <<"Bad">>, <<>>, <<Path1("dep")>>,
             {Sym(PKG, "Nope")})
\* Declares ip.Point, which the pool holds in m/pt.proto.
FOPt == File(Path2("o", "pt"), IP, <<"Point">>, <<>>, <<>>, {})
FUse == File(Path1("use"), PKG, <<"Use">>, <<>>, <<Path2("o", "pt")>>,
             {Sym(IP, "Point")})
\* Declares symbols of two files of the pool.
FConf == File(Path1("conf"), IP, <<"Point", "Ref">>, <<>>, <<>>, {})
\* Named as a file of the pool, with another definition (no messages).
FShadow == File(Path2("m", "pt"), IP, <<>>, <<>>, <<>>, {})
FMy == File(Path1("my"), <<"my">>, <<"MyParams">>, <<>>, <<Path2("m", "pt")>>,
            {Sym(IP, "Point")})
\* Declares pkg.Base, as dep.proto does.
FOBase == File(Path2("o", "base"), PKG, <<"Base">>, <<>>, <<>>, {})
FUse2 == File(Path1("use2"), PKG, <<"Use2">>, <<>>, <<Path2("o", "base")>>,
              {Sym(PKG, "Base")})
\* Depends on a file of the pool that the set does not hold.
FExt == File(Path1("ext"), PKG, <<"Ext">>, <<>>, <<Path2("m", "ob")>>,
             {Sym(IP, "Ref")})
\* Depend on each other.
FX == File(Path1("x"), PKG, <<"X">>, <<>>, <<Path1("y")>>, {})
FY == File(Path1("y"), PKG, <<"Y">>, <<>>, <<Path1("x")>>, {})
\* "a.b.proto": a dot inside the file name.
FDot == File(<<"a", ".", "b", ".", "proto">>, PKG, <<"Dot">>, <<>>, <<>>, {})
FUseDot == File(Path1("usedot"), PKG, <<"UseDot">>, <<>>,
                <<<<"a", ".", "b", ".", "proto">>>>, {Sym(PKG, "Dot")})
\* "a/b.proto", the file that the module of "a.b.proto" names.
FSlash == File(Path2("a", "b"), PKG, <<"Slash">>, <<>>, <<>>, {})
\* Named as a file of the pool, and declares a symbol of another file of the
\* pool.
FPtRef == File(Path2("m", "pt"), IP, <<"Ref">>, <<>>, <<>>, {})
FMid3 == File(Path1("mid3"), PKG, <<"Mid3">>, <<>>, <<Path2("o", "pt")>>,
              {Sym(IP, "Point")})
FTop3 == File(Path1("top3"), PKG, <<"Top3">>, <<>>, <<Path1("mid3")>>,
              {Sym(PKG, "Mid3")})
\* No package.
FBare == File(Path1("bare"), <<>>, <<"Bare">>, <<>>, <<>>, {})
\* Depends on a file that neither the set nor the pool holds.
FLone == File(Path1("lone"), PKG, <<"Lone">>, <<>>, <<Path1("gone")>>, {})

Bundles ==
  << <<FDep, FMain>>,
     <<FTop, FMid, FMain, FDep>>,
     <<FDep, FBad>>,
     <<FOPt, FUse>>,
     <<FConf, FDep, FMain>>,
     <<FShadow, FMy>>,
     <<FOBase, FUse2>>,
     <<FExt, FDep>>,
     <<FX, FY>>,
     <<FDot, FSlash, FUseDot, FBare>>,
     <<FOPt, FPtRef, FMid3, FTop3>>,
     <<>>,
     <<FLone>>,
     <<FPtRef, FOPt, FDep>> >>

BundleIds == 1..Len(Bundles)

Paths ==
  PoolNames(BuildTimeFiles) \cup
  UNION {{Bundles[b][i].name : i \in 1..Len(Bundles[b])} : b \in BundleIds}

\* The names a load request is made with: the module of every file of the
\* set, a name without the suffix, the name of a module without the suffix
\* that the regular import finds, and the module of no file.
LoadNames(b) ==
  {_to_proto_module(Bundles[b][i].name) : i \in 1..Len(Bundles[b])} \cup
  {<<"some", ".", "non_proto_module">>, <<"sys">>,
   <<"not", ".", "in", ".", "set", "_pb2">>}

(***************************************************************************)
(* The state of a request.                                                 *)
(***************************************************************************)
NoFile == File(<<>>, <<>>, <<>>, <<>>, <<>>, {})
NoValue == [none |-> TRUE]
NoResult == [kind |-> "none", value |-> NoValue]
NoRequest == [op |-> "none", name |-> <<>>, bundle |-> 0, arg |-> NoValue]

\* The maps are not handed on: every activation is called with None for
\* symbol_to_file and path_to_default_path.
FrameWithoutMaps(module_name, file_descriptor_set, symbol_to_file, path_to_default_path, have_maps) ==
  [module_name |-> module_name,
   file_descriptor_set |-> file_descriptor_set,
   symbol_to_file |-> EmptyDict,
   path_to_default_path |-> EmptyDict,
   have_maps |-> FALSE,
   pc |-> "start",
   file_descriptor_proto |-> NoFile,
   dep_i |-> 1]

\* One activation of import_from_file_descriptor_set: its arguments
\* (have_maps: symbol_to_file and path_to_default_path are not None), its
\* locals, and where it stands.
Frame(module_name, file_descriptor_set, symbol_to_file, path_to_default_path, have_maps) ==
  [module_name |-> module_name,
   file_descriptor_set |-> file_descriptor_set,
   symbol_to_file |-> symbol_to_file,
   path_to_default_path |-> path_to_default_path,
   have_maps |-> have_maps,
   pc |-> "start",
   file_descriptor_proto |-> NoFile,
   dep_i |-> 1]

IdleThread ==
  [phase |-> "idle", req |-> NoRequest, stack |-> <<>>, result |-> NoResult,
   log |-> <<>>, pool0 |-> {}, mods0 |-> {}, prev |-> NoResult, same |-> FALSE,
   caller_set |-> <<>>]

\* A module of the interpreter that is no proto module.
SysModule == Module(<<"sys">>, NoFile, 0)

BuildTimeModules ==
  {Module(_to_proto_module(f.name), f, 0) : f \in BuildTimeFiles} \cup {SysModule}

Init ==
  /\ pool = BuildTimeFiles
  /\ sys_modules = BuildTimeModules
  /\ thr = [t \in Threads |-> IdleThread]
  /\ nreq = 0
  /\ added = [p \in Paths |-> 0]
  /\ synth = [p \in Paths |-> 0]

Top(t) == thr[t].stack[Len(thr[t].stack)]

Running(t, pc) ==
  /\ thr[t].phase = "run"
  /\ Top(t).pc = pc

\* A caller makes a request when it holds no result, or makes the request
\* it holds the result of once more.
MayStart(t, req) ==
  \/ thr[t].phase = "idle"
  \/ thr[t].phase = "done" /\ thr[t].req = req

\* A request starts: the result of the same request before it, if it
\* repeats one, and the registry as the request finds it.
Started(t, req) ==
  [IdleThread EXCEPT
     !.req = req,
     !.pool0 = pool,
     !.mods0 = sys_modules,
     !.prev = thr[t].result,
     !.same = (thr[t].phase = "done"),
     !.caller_set = IF req.bundle = 0 THEN <<>> ELSE Bundles[req.bundle]]

\* A handler that puts the pool back as the request found it.
PoolRolledBack(t) == thr[t].pool0

\* No activation handles an exception (there is no except clause but the one
\* for ModuleNotFoundError, and no finally): the pool stays as it is.
PoolAfterRaise(t) == pool

\* An exception leaves every activation of the request.
Raise(t, kind) ==
  [thr EXCEPT ![t].phase = "done", ![t].stack = <<>>,
              ![t].result = [kind |-> kind, value |-> NoValue]]

\* The loop over the dependencies left out.
NextPcSkip(file_descriptor_proto, i) == "add"

\* The for loop over file_descriptor_proto.dependency: the next statement
\* when dependency number i is the next one.
NextPc(file_descriptor_proto, i) ==
  IF i <= Len(file_descriptor_proto.dependency) THEN "deps" ELSE "add"

\* The top activation of thread t returns module, in the thread as it is in
\* th: to the activation that called it, to unpack_params_message, or to the
\* caller of the load request.
Return(th, t, module) ==
  LET stack == th[t].stack
      n == Len(stack)
  IN IF n > 1
     THEN [th EXCEPT ![t].stack =
             [SubSeq(stack, 1, n - 1) EXCEPT
                ![n - 1].pc = NextPc(stack[n - 1].file_descriptor_proto,
                                     stack[n - 1].dep_i)]]
     ELSE IF th[t].req.op = "decode"
          THEN [th EXCEPT ![t].phase = "unpack", ![t].stack = <<>>,
                          ![t].result = [kind |-> "module", value |-> module]]
          ELSE [th EXCEPT ![t].phase = "done", ![t].stack = <<>>,
                          ![t].result = [kind |-> "ok", value |-> module]]

(***************************************************************************)
(* import_from_file_descriptor_set                                         *)
(***************************************************************************)
LoadRequest(b, module_name) ==
  [op |-> "load", name |-> module_name, bundle |-> b, arg |-> NoValue]

\* A caller asks for module_name from file descriptor set b.
BeginLoad(t, b, module_name) ==
  /\ MayStart(t, LoadRequest(b, module_name))
  /\ nreq < MaxRequests
  /\ nreq' = nreq + 1
  /\ thr' = [thr EXCEPT ![t] =
       [Started(t, LoadRequest(b, module_name))
        EXCEPT !.phase = "run",
               !.stack = <<Frame(module_name, Bundles[b], EmptyDict, EmptyDict,
                                 FALSE)>>]]
  /\ UNCHANGED <<pool, sys_modules, added, synth>>

\* The check of the name, and the regular import (from the sys.modules
\* cache).
Enter(t) ==
  /\ Running(t, "start")
  /\ LET module_name == Top(t).module_name
     IN IF ~EndsWith(module_name, <<"_pb2">>)
        THEN /\ thr' = Raise(t, "ValueError:suffix")
             /\ pool' = PoolAfterRaise(t)
        ELSE /\ thr' =
                  IF Importable(sys_modules, module_name)
                  THEN Return(thr, t, import_module(sys_modules, module_name))
                  ELSE [thr EXCEPT ![t].stack[Len(thr[t].stack)].pc = "prepare"]
             /\ pool' = pool
  /\ UNCHANGED <<sys_modules, nreq, added, synth>>

\* next(...) without the except clause: StopIteration leaves the function.
FindFileNoExcept(file_descriptor_set, file_name) ==
  LET hits == {i \in 1..Len(file_descriptor_set) :
                 file_descriptor_set[i].name = file_name}
  IN IF hits = {}
     THEN [raised |-> "StopIteration", file |-> NoFile]
     ELSE [raised |-> "",
           file |-> file_descriptor_set[
                      CHOOSE i \in hits : \A j \in hits : i <= j]]

\* The file named file_name in the set: the first one.
FindFile(file_descriptor_set, file_name) ==
  LET hits == {i \in 1..Len(file_descriptor_set) :
                 file_descriptor_set[i].name = file_name}
  IN IF hits = {}
     THEN [raised |-> "ValueError:file", file |-> NoFile]
     ELSE [raised |-> "",
           file |-> file_descriptor_set[
                      CHOOSE i \in hits : \A j \in hits : i <= j]]

\* The rewrite is made in the object it was given.
RewrittenInPlace(new_file_descriptor_set, compatible_file_descriptor_set) ==
  compatible_file_descriptor_set

\* The object given to _create_compatible_file_descriptor_set after the
\* call: the names are changed in a copy (CopyFrom).
ArgumentAfterRewrite(new_file_descriptor_set, compatible_file_descriptor_set) ==
  new_file_descriptor_set

\* From the maps (made when the arguments are None) to the file of the set
\* that is to be imported.
Prepare(t) ==
  /\ Running(t, "prepare")
  /\ LET f == Top(t)
         n == Len(thr[t].stack)
         symbol_to_file ==
           IF f.have_maps THEN f.symbol_to_file
           ELSE _create_symbol_to_file(f.file_descriptor_set, pool)
         paths ==
           IF f.have_maps
           THEN [raised |-> "", dict |-> f.path_to_default_path]
           ELSE _create_default_paths(f.file_descriptor_set, symbol_to_file)
         compatible ==
           _create_compatible_file_descriptor_set(f.file_descriptor_set,
                                                  paths.dict)
         found == FindFile(compatible.set, _to_proto_filename(f.module_name))
         raised ==
           IF paths.raised # "" THEN "TypeError:paths"
           ELSE IF compatible.raised # "" THEN "KeyError"
           ELSE found.raised
     IN IF raised # ""
        THEN /\ thr' = Raise(t, raised)
             /\ pool' = PoolAfterRaise(t)
        ELSE /\ thr' = [thr EXCEPT
                  ![t].stack[n] =
                    [f EXCEPT !.symbol_to_file = symbol_to_file,
                              !.path_to_default_path = paths.dict,
                              !.have_maps = TRUE,
                              !.file_descriptor_set = compatible.set,
                              !.file_descriptor_proto = found.file,
                              !.pc = NextPc(found.file, 1)],
                  \* the top-level activation is given the caller's object
                  ![t].caller_set =
                    IF n = 1
                    THEN ArgumentAfterRewrite(f.file_descriptor_set,
                                              compatible.set)
                    ELSE @]
             /\ pool' = pool
  /\ UNCHANGED <<sys_modules, nreq, added, synth>>

\* The call for the next dependency, with the set and the maps of this
\* activation.
ImportDependency(t) ==
  /\ Running(t, "deps")
  /\ LET f == Top(t)
         n == Len(thr[t].stack)
         dependency_file_name == f.file_descriptor_proto.dependency[f.dep_i]
     IN IF n >= MaxDepth
        THEN /\ thr' = Raise(t, "RecursionError")
             /\ pool' = PoolAfterRaise(t)
        ELSE /\ thr' = [thr EXCEPT ![t].stack =
                  Append([thr[t].stack EXCEPT ![n].dep_i = f.dep_i + 1],
                         Frame(_to_proto_module(dependency_file_name),
                               f.file_descriptor_set, f.symbol_to_file,
                               f.path_to_default_path, TRUE))]
             /\ pool' = pool
  /\ UNCHANGED <<sys_modules, nreq, added, synth>>

\* descriptor_pool.Default().Add and FindFileByName.
AddToPool(t) ==
  /\ Running(t, "add")
  /\ LET file == Top(t).file_descriptor_proto
     IN IF PoolAccepts(pool, file)
        THEN /\ pool' = PoolAdd(pool, file)
             /\ added' = [added EXCEPT ![file.name] = @ + 1]
             /\ thr' = [thr EXCEPT ![t].stack[Len(thr[t].stack)].pc = "build"]
        ELSE /\ thr' = Raise(t, "TypeError:pool")
             /\ pool' = PoolAfterRaise(t)
             /\ UNCHANGED added
  /\ UNCHANGED <<sys_modules, nreq, synth>>

\* The module is made from the pool's file descriptor and put into
\* sys.modules.
BuildModule(t) ==
  /\ Running(t, "build")
  /\ LET f == Top(t)
         file_descriptor == FindFileByName(pool, f.file_descriptor_proto.name)
         module == Module(f.module_name, file_descriptor,
                          synth[file_descriptor.name] + 1)
     IN /\ sys_modules' = SetModule(sys_modules, module)
        /\ synth' = [synth EXCEPT ![file_descriptor.name] = @ + 1]
        /\ thr' = Return([thr EXCEPT ![t].log = Append(@, file_descriptor.name)],
                         t, module)
  /\ UNCHANGED <<pool, nreq, added>>

(***************************************************************************)
(* unpack_params_message                                                   *)
(***************************************************************************)
TypeUrl(full_name) ==
  <<"type", ".", "googleapis", ".", "com", "/">> \o full_name

\* A message: its class (the module that made it and the attribute) and
\* its field.
Message(module, message_name, x) ==
  [module |-> module.id,
   full_name |-> _proto_full_name(module.DESCRIPTOR.package, message_name),
   x |-> x]

\* The raise at the end left out: the function returns None.
FindModuleNoRaise(message_full_name, file_descriptor_set) ==
  LET hits == {i \in 1..Len(file_descriptor_set) :
                 \E k \in 1..Len(file_descriptor_set[i].message_type) :
                   _proto_full_name(file_descriptor_set[i].package,
                                    file_descriptor_set[i].message_type[k])
                     = message_full_name}
  IN IF hits = {}
     THEN [raised |-> "", module |-> <<"None">>]
     ELSE [raised |-> "",
           module |-> _to_proto_module(
             file_descriptor_set[CHOOSE i \in hits : \A j \in hits : i <= j].name)]

_find_module_containing_message(message_full_name, file_descriptor_set) ==
  LET hits == {i \in 1..Len(file_descriptor_set) :
                 \E k \in 1..Len(file_descriptor_set[i].message_type) :
                   _proto_full_name(file_descriptor_set[i].package,
                                    file_descriptor_set[i].message_type[k])
                     = message_full_name}
  IN IF hits = {}
     THEN [raised |-> "ValueError:message", module |-> <<>>]
     ELSE [raised |-> "",
           module |-> _to_proto_module(
             file_descriptor_set[CHOOSE i \in hits : \A j \in hits : i <= j].name)]

\* The names in the set that a decode request is made for, a name that
\* no file declares, and the name of a message nested in pkg.Base.
DecodeNames(b) ==
  UNION {{_proto_full_name(f.package, n) : n \in Range(f.message_type)} :
           f \in Range(Bundles[b])} \cup
  {<<"non", ".", "existent", ".", "Message">>,
   <<"pkg", ".", "Base", ".", "Inner">>}

DecodeRequest(b, message_full_name, x) ==
  [op |-> "decode", name |-> TypeUrl(message_full_name), bundle |-> b,
   arg |-> [x |-> x]]

\* unpack_params_message up to its call of import_from_file_descriptor_set.
BeginDecode(t, b, message_full_name, x) ==
  /\ MayStart(t, DecodeRequest(b, message_full_name, x))
  /\ nreq < MaxRequests
  /\ nreq' = nreq + 1
  /\ LET type_url == TypeUrl(message_full_name)
         found == _find_module_containing_message(
                    LastSegment(type_url, "/"), Bundles[b])
         started == Started(t, DecodeRequest(b, message_full_name, x))
     IN thr' = [thr EXCEPT ![t] =
          IF found.raised # ""
          THEN [started EXCEPT
                  !.phase = "done",
                  !.result = [kind |-> found.raised, value |-> NoValue]]
          ELSE [started EXCEPT
                  !.phase = "run",
                  !.stack = <<Frame(found.module, Bundles[b], EmptyDict,
                                    EmptyDict, FALSE)>>]]
  /\ UNCHANGED <<pool, sys_modules, added, synth>>

\* The attributes builder gives a module that are message classes.
MessageClasses(module) == {<<n>> : n \in Range(module.DESCRIPTOR.message_type)}

ModuleAttributes(module) ==
  {<<n>> : n \in Range(SymbolFields(module.DESCRIPTOR))}

\* getattr, the construction of the message and Any.Unpack, which leaves
\* the message as constructed when the Any holds another type.
Unpack(t) ==
  /\ thr[t].phase = "unpack"
  /\ LET type_url == thr[t].req.name
         module == thr[t].result.value
         message_name == LastSegment(type_url, ".")
         params == Message(module, message_name[1], 0)
         result ==
           IF message_name \notin ModuleAttributes(module)
           THEN [kind |-> "AttributeError", value |-> NoValue]
           ELSE IF message_name \notin MessageClasses(module)
           THEN [kind |-> "TypeError:call", value |-> NoValue]
           ELSE IF params.full_name = LastSegment(type_url, "/")
           THEN [kind |-> "ok",
                 value |-> [params EXCEPT !.x = thr[t].req.arg.x]]
           ELSE [kind |-> "ok", value |-> params]
     IN thr' = [thr EXCEPT ![t].phase = "done", ![t].result = result]
  /\ UNCHANGED <<pool, sys_modules, nreq, added, synth>>

(***************************************************************************)
(* serialize_return_value_message                                          *)
(***************************************************************************)
NotAMessage == [str |-> "this is not a proto message"]

\* The values a caller returns: None, a string, and the messages of the
\* classes of the modules in sys.modules.
ReturnValues ==
  {NoValue, NotAMessage} \cup
  UNION {{Message(m, n[1], x) : n \in MessageClasses(m), x \in {0, 1}} :
           m \in sys_modules}

ExpectedNames == {Sym(IP, "Point"), Sym(PKG, "Base"), Sym(<<>>, "Bare")}

\* The early return for None left out: None goes on to the isinstance check.
SerializeNoneRefused(return_value, return_value_message_full_name) ==
  IF return_value = NoValue \/ return_value = NotAMessage
  THEN [kind |-> "ValueError:not a message", value |-> NoValue]
  ELSE IF return_value.full_name # return_value_message_full_name
  THEN [kind |-> "ValueError:wrong type", value |-> NoValue]
  ELSE [kind |-> "ok",
        value |-> [type_url |-> TypeUrl(return_value.full_name),
                   value |-> [x |-> return_value.x]]]

\* The comparison of the full names left out.
SerializeUnchecked(return_value, return_value_message_full_name) ==
  IF return_value = NoValue
  THEN [kind |-> "ok", value |-> NoValue]
  ELSE IF return_value = NotAMessage
  THEN [kind |-> "ValueError:not a message", value |-> NoValue]
  ELSE [kind |-> "ok",
        value |-> [type_url |-> TypeUrl(return_value.full_name),
                   value |-> [x |-> return_value.x]]]

serialize_return_value_message(return_value, return_value_message_full_name) ==
  IF return_value = NoValue
  THEN [kind |-> "ok", value |-> NoValue]
  ELSE IF return_value = NotAMessage
  THEN [kind |-> "ValueError:not a message", value |-> NoValue]
  ELSE IF return_value.full_name # return_value_message_full_name
  THEN [kind |-> "ValueError:wrong type", value |-> NoValue]
  ELSE [kind |-> "ok",
        value |-> [type_url |-> TypeUrl(return_value.full_name),
                   value |-> [x |-> return_value.x]]]

EncodeRequest(return_value, return_value_message_full_name) ==
  [op |-> "encode", name |-> return_value_message_full_name, bundle |-> 0,
   arg |-> return_value]

Serialize(t, return_value, return_value_message_full_name) ==
  /\ MayStart(t, EncodeRequest(return_value, return_value_message_full_name))
  /\ nreq < MaxRequests
  /\ nreq' = nreq + 1
  /\ thr' = [thr EXCEPT ![t] =
       [Started(t, EncodeRequest(return_value, return_value_message_full_name))
        EXCEPT !.phase = "done",
               !.result = serialize_return_value_message(
                            return_value, return_value_message_full_name)]]
  /\ UNCHANGED <<pool, sys_modules, added, synth>>

\* The caller hands the bytes that serialize_return_value_message returned
\* to unpack_params_message, with a file descriptor set that declares the
\* type; the request keeps the message that was serialized.
DecodeReturned(t, b) ==
  /\ thr[t].phase = "done"
  /\ thr[t].req.op = "encode"
  /\ thr[t].result.kind = "ok"
  /\ thr[t].result.value # NoValue
  /\ thr[t].req.arg.full_name \in BundleSymbols(Bundles[b])
  /\ nreq < MaxRequests
  /\ nreq' = nreq + 1
  /\ LET params_any == thr[t].result.value
         found == _find_module_containing_message(
                    LastSegment(params_any.type_url, "/"), Bundles[b])
         started == [Started(t, [op |-> "decode", name |-> params_any.type_url,
                                 bundle |-> b, arg |-> params_any.value])
                     EXCEPT !.prev = [kind |-> "encoded",
                                      value |-> thr[t].req.arg],
                            !.same = FALSE]
     IN thr' = [thr EXCEPT ![t] =
          IF found.raised # ""
          THEN [started EXCEPT
                  !.phase = "done",
                  !.result = [kind |-> found.raised, value |-> NoValue]]
          ELSE [started EXCEPT
                  !.phase = "run",
                  !.stack = <<Frame(found.module, Bundles[b], EmptyDict,
                                    EmptyDict, FALSE)>>]]
  /\ UNCHANGED <<pool, sys_modules, added, synth>>

\* The caller takes the result of its request.
TakeResult(t) ==
  /\ thr[t].phase = "done"
  /\ thr' = [thr EXCEPT ![t] = IdleThread]
  /\ UNCHANGED <<pool, sys_modules, nreq, added, synth>>

(***************************************************************************)
(* Specifications.                                                         *)
(***************************************************************************)
\* One caller: every request ends before the next one starts.
Caller == "t1"

Next ==
  \/ \E b \in BundleIds : \E module_name \in LoadNames(b) :
       BeginLoad(Caller, b, module_name)
  \/ \E b \in BundleIds : \E name \in DecodeNames(b) :
       BeginDecode(Caller, b, name, 1)
  \/ \E v \in ReturnValues : \E name \in ExpectedNames :
       Serialize(Caller, v, name)
  \/ \E b \in BundleIds : DecodeReturned(Caller, b)
  \/ Enter(Caller)
  \/ Prepare(Caller)
  \/ ImportDependency(Caller)
  \/ AddToPool(Caller)
  \/ BuildModule(Caller)
  \/ Unpack(Caller)
  \/ TakeResult(Caller)

Spec == Init /\ [][Next]_vars

\* Load requests of several threads, interleaved statement by statement:
\* the code takes no lock.
ConcBundles == {1, 7}

NextConc ==
  \E t \in Threads :
    \/ \E b \in ConcBundles : \E module_name \in LoadNames(b) :
         BeginLoad(t, b, module_name)
    \/ Enter(t)
    \/ Prepare(t)
    \/ ImportDependency(t)
    \/ AddToPool(t)
    \/ BuildModule(t)
    \/ TakeResult(t)

SpecConc == Init /\ [][NextConc]_vars

(***************************************************************************)
(* What the claims speak of.                                               *)
(***************************************************************************)
Done(t) == thr[t].phase = "done"

LoadDone(t) == Done(t) /\ thr[t].req.op = "load"

\* A canonical path is visible in the Live Registry: the pool holds the file
\* and the module of that path can be imported.
Visible(p, mods, path) ==
  /\ path \in PoolNames(p)
  /\ Importable(mods, _to_proto_module(path))

\* The names reached from the names in S along the dependencies of the
\* files in F.
RECURSIVE DepClosure(_, _)
DepClosure(S, F) ==
  LET next == S \cup UNION {Range(g.dependency) : g \in {h \in F : h.name \in S}}
  IN IF next = S THEN S ELSE DepClosure(next, F)

TransDeps(file, F) == DepClosure(Range(file.dependency), F)

(***************************************************************************)
(* C1: over any sequence of load and decode requests of one caller, with   *)
(* requests that fail partway and are made again, every canonical path is  *)
(* added to the pool at most once and a module is made from it at most     *)
(* once.                                                                   *)
(***************************************************************************)
C1_RegisteredAtMostOnce ==
  \A path \in Paths : added[path] <= 1 /\ synth[path] <= 1

\* A request that failed after dep.proto was registered has been made again
\* and has ended.
C1_Witness ==
  /\ Done(Caller)
  /\ thr[Caller].same
  /\ thr[Caller].prev.kind = "TypeError:pool"
  /\ added[Path1("dep")] = 1
  /\ synth[Path1("dep")] = 1

(***************************************************************************)
(* C2: a file is handed to the pool only when the module of each of its    *)
(* dependencies can be imported; while a file is being registered (it is   *)
(* in the pool, its module is being made) every transitive dependency, by  *)
(* its canonical path, is visible in the Live Registry; and the pool holds *)
(* the dependencies of every file it holds, so a dependency is registered  *)
(* before its dependent.                                                   *)
(***************************************************************************)
C2_DependenciesFirst ==
  /\ \A t \in Threads :
       Running(t, "add") =>
         \A d \in Range(Top(t).file_descriptor_proto.dependency) :
           Importable(sys_modules, _to_proto_module(d))
  /\ \A t \in Threads :
       Running(t, "build") =>
         \A d \in TransDeps(Top(t).file_descriptor_proto, pool) :
           Visible(pool, sys_modules, d)
  /\ \A file \in pool : TransDeps(file, pool) \subseteq PoolNames(pool)

\* top.proto is being registered after main.proto, mid.proto and dep.proto
\* were registered in the same request.
C2_Witness ==
  /\ Running(Caller, "build")
  /\ Top(Caller).file_descriptor_proto.name = Path1("top")
  /\ Len(thr[Caller].log) = 3

(***************************************************************************)
(* C4: a load request made a second time with the same name and the same   *)
(* set, after it returned a module, returns that very module, makes no     *)
(* module and leaves the pool and sys.modules as they were: the file was   *)
(* parsed once (never, for a module compiled into the process).            *)
(***************************************************************************)
C4_SecondCallFromCache ==
  \A t \in Threads :
    (LoadDone(t) /\ thr[t].same /\ thr[t].prev.kind = "ok") =>
      /\ thr[t].result.kind = "ok"
      /\ thr[t].result.value = thr[t].prev.value
      /\ thr[t].log = <<>>
      /\ pool = thr[t].pool0
      /\ sys_modules = thr[t].mods0
      /\ synth[thr[t].result.value.DESCRIPTOR.name] =
           (IF thr[t].result.value.id = 0 THEN 0 ELSE 1)
      /\ added[thr[t].result.value.DESCRIPTOR.name] = 
           (IF thr[t].result.value.id = 0 THEN 0 ELSE 1)

\* The second call for main.proto, which the first call made, has returned.
C4_Witness ==
  /\ LoadDone(Caller)
  /\ thr[Caller].same
  /\ thr[Caller].prev.kind = "ok"
  /\ thr[Caller].result.kind = "ok"
  /\ thr[Caller].result.value.DESCRIPTOR.name = Path1("main")
  /\ thr[Caller].result.value.id = 1

(***************************************************************************)
(* C9: when a request ends with an error, every path it registered before  *)
(* the error is still in the pool with the module made for it, and so is   *)
(* everything the request found registered.                                *)
(***************************************************************************)
C9_PartialProgressKept ==
  \A t \in Threads :
    (Done(t) /\ thr[t].result.kind # "ok") =>
      /\ thr[t].pool0 \subseteq pool
      /\ thr[t].mods0 \subseteq sys_modules
      /\ \A i \in 1..Len(thr[t].log) :
           /\ thr[t].log[i] \in PoolNames(pool)
           /\ \E m \in sys_modules :
                /\ m.DESCRIPTOR.name = thr[t].log[i]
                /\ m.name = _to_proto_module(thr[t].log[i])
                /\ m.id = 1

\* bad.proto was refused by the pool after its dependency dep.proto was
\* registered in the same request.
C9_Witness ==
  /\ LoadDone(Caller)
  /\ thr[Caller].result.kind = "TypeError:pool"
  /\ thr[Caller].log = <<Path1("dep")>>
  /\ Path1("dep") \notin PoolNames(thr[Caller].pool0)

(***************************************************************************)
(* C10: no step of a load, decode or encode request takes a file out of    *)
(* the pool or a module out of sys.modules, or puts another module in the  *)
(* place of one.                                                           *)
(***************************************************************************)
C10_AppendOnly ==
  [][/\ pool \subseteq pool'
     /\ sys_modules \subseteq sys_modules'
     /\ \A m \in sys_modules' :
          m.name \in ModuleNames(sys_modules) => m \in sys_modules]_vars

\* A decode request has failed and an encode request has been made after
\* files were registered.
C10_Witness ==
  /\ Done(Caller)
  /\ thr[Caller].req.op = "encode"
  /\ thr[Caller].result.kind # "ok"
  /\ Cardinality(pool) >= Cardinality(BuildTimeFiles) + 2
  /\ Cardinality(sys_modules) >= Cardinality(BuildTimeModules) + 2

(***************************************************************************)
(* C6.                                                                     *)
(***************************************************************************)
\* Two symbols of the file are declared by two different files of pool p.
ConflictFile(file, p) ==
  \E s1 \in FullNames(file) : \E s2 \in FullNames(file) :
    /\ HasSymbol(p, s1)
    /\ HasSymbol(p, s2)
    /\ FindFileContainingSymbol(p, s1).name # FindFileContainingSymbol(p, s2).name

ConflictRequest(t) ==
  /\ LoadDone(t)
  /\ \E file \in Range(Bundles[thr[t].req.bundle]) :
       ConflictFile(file, thr[t].pool0)

\* C6 as claimed: every load request on a set with such a file ends with
\* the TypeError of _create_default_paths, and registers nothing of the file.
C6_Original ==
  \A t \in Threads :
    ConflictRequest(t) =>
      /\ thr[t].result.kind = "TypeError:paths"
      /\ \A file \in Range(Bundles[thr[t].req.bundle]) :
           ConflictFile(file, thr[t].pool0) =>
             file.name \notin Range(thr[t].log)

\* C6, amended: a load request on a set with such a file, for a name that
\* ends with _pb2 and that the regular import does not find, ends with the
\* TypeError of _create_default_paths and leaves the pool and sys.modules
\* as they were.
C6_ConflictDetected ==
  \A t \in Threads :
    (/\ ConflictRequest(t)
     /\ EndsWith(thr[t].req.name, <<"_pb2">>)
     /\ ~Importable(thr[t].mods0, thr[t].req.name)) =>
      /\ thr[t].result.kind = "TypeError:paths"
      /\ pool = thr[t].pool0
      /\ sys_modules = thr[t].mods0

\* The request for main.proto failed with the conflict of conf.proto, after
\* an earlier request had registered files.
C6_Witness ==
  /\ ConflictRequest(Caller)
  /\ thr[Caller].req.name = _to_proto_module(Path1("main"))
  /\ thr[Caller].result.kind = "TypeError:paths"
  /\ thr[Caller].pool0 # BuildTimeFiles

(***************************************************************************)
(* C3 and C5: the request of thread t, as it found the pool (pool0) and    *)
(* sys.modules (mods0).                                                    *)
(***************************************************************************)
ReqSet(t) == Bundles[thr[t].req.bundle]

ReqFiles(t) == Range(ReqSet(t))

ReqNames(t) == {g.name : g \in ReqFiles(t)}

\* The module name import_from_file_descriptor_set is called with: the name
\* of a load request, and the module that unpack_params_message finds for
\* the type of a decode request.
ReqModule(t) ==
  IF thr[t].req.op = "decode"
  THEN _find_module_containing_message(LastSegment(thr[t].req.name, "/"),
                                       ReqSet(t)).module
  ELSE thr[t].req.name

\* The canonical path of a file of the set: the path of the pool's file that
\* declares one of its symbols, and its own name when there is none.
Canon(g, p) ==
  LET hits == {s \in FullNames(g) : HasSymbol(p, s)}
  IN IF hits = {} THEN g.name
     ELSE FindFileContainingSymbol(p, CHOOSE s \in hits : TRUE).name

CanonName(t, name) ==
  Canon(CHOOSE g \in ReqFiles(t) : g.name = name, thr[t].pool0)

\* The file with its name and its dependencies in canonical paths.
CanonFile(t, g) ==
  [g EXCEPT !.name = Canon(g, thr[t].pool0),
            !.dependency = [i \in 1..Len(g.dependency) |->
                              CanonName(t, g.dependency[i])]]

Registered(t, path) == Importable(thr[t].mods0, _to_proto_module(path))

\* The files of the set, in canonical paths, that the request did not find
\* registered.
Fresh(t) == {cg \in {CanonFile(t, g) : g \in ReqFiles(t)} : ~Registered(t, cg.name)}

\* The file asked for and the canonical paths of its transitive
\* dependencies, followed through the files that are not yet registered.
Reach(t) == DepClosure({_to_proto_filename(ReqModule(t))}, Fresh(t))

New(t) == {c \in Reach(t) : ~Registered(t, c)}

\* The pool's file of a registered path, the set's file of a path that is not.
Provider(t, path) ==
  IF path \in PoolNames(thr[t].pool0)
  THEN FindFileByName(thr[t].pool0, path)
  ELSE CHOOSE cg \in Fresh(t) : cg.name = path

\* The request is for a file of the set whose module is not yet registered;
\* aliased tells whether the pool holds a symbol of the file under another
\* path.
Target(t, aliased) ==
  /\ EndsWith(ReqModule(t), <<"_pb2">>)
  /\ ~Importable(thr[t].mods0, ReqModule(t))
  /\ \E f \in ReqFiles(t) :
       /\ f.name = _to_proto_filename(ReqModule(t))
       /\ _to_proto_module(f.name) = ReqModule(t)
       /\ aliased = (Canon(f, thr[t].pool0) # f.name)

\* What the code relies on in the set without checking it.
SetConsistent(t) ==
  \* the files of the set have different names and name no file outside it
  /\ Cardinality(ReqNames(t)) = Len(ReqSet(t))
  /\ \A g \in ReqFiles(t) : Range(g.dependency) \subseteq ReqNames(t)
  \* the symbols of no file are declared by two files of the pool
  /\ \A g \in ReqFiles(t) : ~ConflictFile(g, thr[t].pool0)
  \* no file carries the name of another file's canonical path while its own
  \* canonical path is a different one
  /\ \A g \in ReqFiles(t) : \A h \in ReqFiles(t) :
       Canon(h, thr[t].pool0) = g.name => Canon(g, thr[t].pool0) = g.name

\* What the code relies on without checking it.
Loadable(t) ==
  /\ Target(t, FALSE)
  /\ SetConsistent(t)
  \* the paths reached are the file names of their module names, each is the
  \* path of one file, and the files do not depend on themselves
  /\ \A c \in Reach(t) : _to_proto_filename(_to_proto_module(c)) = c
  /\ \A c \in New(t) : Cardinality({cg \in Fresh(t) : cg.name = c}) = 1
  /\ \A c \in New(t) : c \notin TransDeps(Provider(t, c), Fresh(t))
  /\ Cardinality(New(t)) <= MaxDepth
  \* the pool can build the new files: their symbols are new and different,
  \* and the types of their fields are declared by them or by a dependency
  /\ \A c \in New(t) :
       /\ c \notin PoolNames(thr[t].pool0)
       /\ FullNames(Provider(t, c)) \cap PoolSymbols(thr[t].pool0) = {}
       /\ \A d \in New(t) \ {c} :
            FullNames(Provider(t, c)) \cap FullNames(Provider(t, d)) = {}
       /\ Provider(t, c).refs \subseteq
            (FullNames(Provider(t, c)) \cup
             UNION {FullNames(Provider(t, d)) :
                      d \in Range(Provider(t, c).dependency)})

\* The number of modules the request made from the path.
Synthesized(t, path) ==
  Cardinality({i \in 1..Len(thr[t].log) : thr[t].log[i] = path})

\* C3 as claimed: a load request for a file of the set whose transitive
\* dependencies are in the set returns a module, and the request makes one
\* module from every transitive dependency.
C3_Original ==
  \A t \in Threads :
    LoadDone(t) =>
      \A f \in ReqFiles(t) :
        (/\ thr[t].req.name = _to_proto_module(f.name)
         /\ TransDeps(f, ReqFiles(t)) \subseteq ReqNames(t)) =>
          /\ thr[t].result.kind = "ok"
          /\ \A d \in TransDeps(f, ReqFiles(t)) : Synthesized(t, d) = 1

\* C3, amended: a load request that is Loadable returns the module of the
\* file asked for; the request makes one module from the file and from every
\* canonical path among its transitive dependencies that it did not find
\* registered, and none from a path it found registered; all of them are
\* registered afterwards.  A request for a file one of whose symbols the
\* pool holds under another path finds no file of that name in the
\* rewritten set: it ends with ValueError and registers nothing.
C3_LoadsClosureOnce ==
  \A t \in Threads :
    /\ (LoadDone(t) /\ Loadable(t)) =>
         /\ thr[t].result.kind = "ok"
         /\ thr[t].result.value.name = thr[t].req.name
         /\ thr[t].result.value.DESCRIPTOR.name =
              _to_proto_filename(thr[t].req.name)
         /\ \A c \in Reach(t) :
              /\ Synthesized(t, c) = (IF c \in New(t) THEN 1 ELSE 0)
              /\ Visible(pool, sys_modules, c)
         /\ Range(thr[t].log) = New(t)
    /\ (LoadDone(t) /\ Target(t, TRUE) /\ SetConsistent(t)) =>
         /\ thr[t].result.kind = "ValueError:file"
         /\ thr[t].log = <<>>
         /\ pool = thr[t].pool0

\* top.proto was loaded into a pool without any of the four files of its
\* set: dep.proto, reached through main.proto and through mid.proto, was
\* made once.
C3_Witness ==
  /\ LoadDone(Caller)
  /\ Loadable(Caller)
  /\ thr[Caller].req.name = _to_proto_module(Path1("top"))
  /\ Cardinality(New(Caller)) = 4
  /\ Synthesized(Caller, Path1("dep")) = 1

(***************************************************************************)
(* C5.                                                                     *)
(***************************************************************************)
\* The request of t is for file f of its set, f depends on file g of the
\* set, and g declares symbol s, which the pool held in a file of another
\* name when the request was made.
AliasCase(t, f, g, s) ==
  /\ LoadDone(t)
  /\ thr[t].req.name = _to_proto_module(f.name)
  /\ g.name \in Range(f.dependency)
  /\ s \in FullNames(g)
  /\ HasSymbol(thr[t].pool0, s)
  /\ FindFileContainingSymbol(thr[t].pool0, s).name # g.name

\* The request returned a module that depends on the pool's file of s and
\* not on g; g was not registered, and the pool's file of s and its module
\* are the ones the request found.
Substituted(t, g, s) ==
  LET p1 == FindFileContainingSymbol(thr[t].pool0, s).name
  IN /\ thr[t].result.kind = "ok"
     /\ p1 \in Range(thr[t].result.value.DESCRIPTOR.dependency)
     /\ g.name \notin Range(thr[t].result.value.DESCRIPTOR.dependency)
     /\ g.name \notin Range(thr[t].log)
     /\ g.name \notin PoolNames(pool) \ PoolNames(thr[t].pool0)
     /\ FindFileContainingSymbol(pool, s) = FindFileContainingSymbol(thr[t].pool0, s)
     /\ Importable(thr[t].mods0, _to_proto_module(p1))
     /\ import_module(sys_modules, _to_proto_module(p1)) =
          import_module(thr[t].mods0, _to_proto_module(p1))

\* C5 as claimed: every load request for a file that depends on such a file
\* returns a module, with the pool's file in the place of the set's.
C5_Original ==
  \A t \in Threads :
    LoadDone(t) =>
      \A f \in ReqFiles(t) : \A g \in ReqFiles(t) : \A s \in FullNames(g) :
        AliasCase(t, f, g, s) => Substituted(t, g, s)

\* C5, amended: a load request that is Loadable, for a file that depends on
\* a file of the set one of whose symbols the pool holds under another
\* path, returns a module that depends on the pool's file; the set's file
\* is not registered, and the pool's file and its module stay the ones that
\* were registered.
C5_AliasSubstituted ==
  \A t \in Threads :
    LoadDone(t) =>
      \A f \in ReqFiles(t) : \A g \in ReqFiles(t) : \A s \in FullNames(g) :
        (AliasCase(t, f, g, s) /\ Loadable(t)) => Substituted(t, g, s)

\* use2.proto, which depends on o/base.proto, was loaded after an earlier
\* request had registered pkg.Base with dep.proto.
C5_Witness ==
  /\ LoadDone(Caller)
  /\ Loadable(Caller)
  /\ AliasCase(Caller, FUse2, FOBase, Sym(PKG, "Base"))
  /\ FindFileContainingSymbol(thr[Caller].pool0, Sym(PKG, "Base")).name = Path1("dep")
  /\ Substituted(Caller, FOBase, Sym(PKG, "Base"))

(***************************************************************************)
(* C7 and C8: requests of two threads, under SpecConc.                     *)
(***************************************************************************)
\* Thread u has registered a file in a request that has not yet registered
\* the file it was made for.
Partial(u) == thr[u].phase = "run" /\ thr[u].log # <<>>

\* C7: no step of a request that reads sys.modules or the pool is taken
\* while the request of another thread has registered a dependency and not
\* yet the file that depends on it.
C7_NoIntermediateStateSeen ==
  [][\A t \in Threads :
       (Enter(t) \/ Prepare(t) \/ AddToPool(t)) =>
         \A u \in Threads \ {t} : ~Partial(u)]_vars

\* C8: with requests of two threads, a module is made from every path at
\* most once and the path is added to the pool at most once, and two
\* requests for the same name that returned hold the same module.
C8_OnceUnderConcurrency ==
  /\ \A path \in Paths : synth[path] <= 1 /\ added[path] <= 1
  /\ \A t \in Threads : \A u \in Threads :
       (/\ LoadDone(t) /\ LoadDone(u)
        /\ thr[t].req.name = thr[u].req.name
        /\ thr[t].result.kind = "ok" /\ thr[u].result.kind = "ok") =>
         thr[t].result.value = thr[u].result.value

(***************************************************************************)
(* C11: a load request for a name whose last part is not _pb2 ends with    *)
(* the ValueError of the suffix test, also when the regular import would   *)
(* find a module of that name and whatever the set holds, and the pool and *)
(* sys.modules are as the request found them.                              *)
(***************************************************************************)
NoSuffix(name) == name = <<>> \/ name[Len(name)] # "_pb2"

C11_SuffixFirst ==
  \A t \in Threads :
    (LoadDone(t) /\ NoSuffix(thr[t].req.name)) =>
      /\ thr[t].result.kind = "ValueError:suffix"
      /\ thr[t].log = <<>>
      /\ pool = thr[t].pool0
      /\ sys_modules = thr[t].mods0

\* The request for "sys", which the regular import finds, on the set with
\* the conflicting file, after files had been registered.
C11_Witness ==
  /\ LoadDone(Caller)
  /\ thr[Caller].req.name = <<"sys">>
  /\ Importable(thr[Caller].mods0, <<"sys">>)
  /\ \E file \in ReqFiles(Caller) : ConflictFile(file, thr[Caller].pool0)
  /\ thr[Caller].pool0 # BuildTimeFiles
  /\ thr[Caller].result.kind = "ValueError:suffix"

(***************************************************************************)
(* C12.                                                                    *)
(***************************************************************************)
\* The request of t is for a name with the suffix whose file name is the
\* name of no file of the set and of no file of the pool, and which the
\* regular import does not find.
AbsentTarget(t) ==
  /\ LoadDone(t)
  /\ ~NoSuffix(thr[t].req.name)
  /\ _to_proto_filename(thr[t].req.name) \notin ReqNames(t)
  /\ _to_proto_filename(thr[t].req.name) \notin PoolNames(thr[t].pool0)
  /\ ~Importable(thr[t].mods0, thr[t].req.name)

NotFoundUnchanged(t) ==
  /\ thr[t].result.kind = "ValueError:file"
  /\ thr[t].log = <<>>
  /\ pool = thr[t].pool0
  /\ sys_modules = thr[t].mods0

\* C12 as claimed: every such request ends with the ValueError "Could not
\* find file" and leaves the pool and sys.modules as they were.
C12_Original == \A t \in Threads : AbsentTarget(t) => NotFoundUnchanged(t)

\* C12, amended: such a request ends with the ValueError "Could not find
\* file" and leaves the pool and sys.modules as they were when no file of
\* the set has symbols of two files of the pool and every dependency a file
\* of the set names is the name of a file of the set.
C12_AbsentTargetNotFound ==
  \A t \in Threads :
    (/\ AbsentTarget(t)
     /\ \A g \in ReqFiles(t) : ~ConflictFile(g, thr[t].pool0)
     /\ \A g \in ReqFiles(t) : Range(g.dependency) \subseteq ReqNames(t)) =>
      NotFoundUnchanged(t)

\* The request on a set that holds files, none of them of that name, after files
\* had been registered.
C12_Witness ==
  /\ AbsentTarget(Caller)
  /\ NotFoundUnchanged(Caller)
  /\ thr[Caller].pool0 # BuildTimeFiles
  /\ ReqSet(Caller) # <<>>

(***************************************************************************)
(* C13 and C14: a file of the set names a dependency that is the name of   *)
(* no file of the set.                                                     *)
(***************************************************************************)
\* The request of t is for file f of its set, with the suffix, not found by
\* the regular import, and no file of the set has symbols of two files of
\* the pool.
FileRequest(t, f) ==
  /\ LoadDone(t)
  /\ ~NoSuffix(thr[t].req.name)
  /\ ~Importable(thr[t].mods0, thr[t].req.name)
  /\ f.name = _to_proto_filename(thr[t].req.name)
  /\ _to_proto_module(f.name) = thr[t].req.name
  /\ \A g \in ReqFiles(t) : ~ConflictFile(g, thr[t].pool0)

\* C13: when f or a file of the set that f reaches names a dependency that
\* neither the set nor the pool nor sys.modules holds, the request ends
\* with the ValueError "Could not find file", as a request for a name that
\* is the module of no file does.
C13_MissingDependencyNotFound ==
  \A t \in Threads :
    LoadDone(t) =>
      \A f \in ReqFiles(t) :
        (/\ FileRequest(t, f)
         /\ \E g \in ReqFiles(t) :
              /\ g.name \in {f.name} \cup TransDeps(f, ReqFiles(t))
              /\ \E d \in Range(g.dependency) :
                   /\ d \notin ReqNames(t)
                   /\ d \notin PoolNames(thr[t].pool0)
                   /\ ~Importable(thr[t].mods0, _to_proto_module(d))) =>
          thr[t].result.kind = "ValueError:file"

\* C14: when every dependency that the files of the set name is the name of
\* a file of the set or of a registered file, and some file of the set (f,
\* a file f reaches, or any other) names a registered file that is not in
\* the set, the request returns a module.
C14_RegisteredDependencyResolves ==
  \A t \in Threads :
    LoadDone(t) =>
      \A f \in ReqFiles(t) :
        (/\ FileRequest(t, f)
         /\ \A g \in ReqFiles(t) : \A d \in Range(g.dependency) :
              \/ d \in ReqNames(t)
              \/ Visible(thr[t].pool0, thr[t].mods0, d)
         /\ \E g \in ReqFiles(t) : \E d \in Range(g.dependency) :
              d \notin ReqNames(t)) =>
          thr[t].result.kind = "ok"

(***************************************************************************)
(* C15: decode requests.                                                   *)
(***************************************************************************)
DecodeDone(t) == Done(t) /\ thr[t].req.op = "decode"

\* The full name in the type_url of the request.
TypeName(t) == LastSegment(thr[t].req.name, "/")

\* A file of the set declares the type as a top-level message, and the set
\* is one the type can be had from: the module of the declaring file is
\* imported and holds the type, or can be loaded, or the pool holds the
\* type under another path.
Decodable(t) ==
  /\ _find_module_containing_message(TypeName(t), ReqSet(t)).raised = ""
  /\ SetConsistent(t)
  /\ \/ /\ Importable(thr[t].mods0, ReqModule(t))
        /\ TypeName(t) \in
             FullNames(import_module(thr[t].mods0, ReqModule(t)).DESCRIPTOR)
     \/ Loadable(t)
     \/ Target(t, TRUE)

\* C15: a decode request for a type that is Decodable returns a message of
\* that full name with the field of the envelope, an instance of the class
\* of the module that sys.modules holds for the pool's file of the type.
C15_DecodeReturnsInstance ==
  \A t \in Threads :
    (DecodeDone(t) /\ Decodable(t)) =>
      /\ thr[t].result.kind = "ok"
      /\ thr[t].result.value.full_name = TypeName(t)
      /\ thr[t].result.value.x = thr[t].req.arg.x
      /\ HasSymbol(pool, TypeName(t))
      /\ \E m \in sys_modules :
           /\ m.DESCRIPTOR = FindFileContainingSymbol(pool, TypeName(t))
           /\ m.id = thr[t].result.value.module

(***************************************************************************)
(* C16: a decode request for a type that no file of the set declares as a  *)
(* top-level symbol (the name of a nested message is such a type) ends     *)
(* with the ValueError of _find_module_containing_message; no file was     *)
(* registered and the pool and sys.modules are as the request found them.  *)
(***************************************************************************)
C16_UnknownTypeRefused ==
  \A t \in Threads :
    (DecodeDone(t) /\ TypeName(t) \notin BundleSymbols(ReqSet(t))) =>
      /\ thr[t].result.kind = "ValueError:message"
      /\ thr[t].log = <<>>
      /\ pool = thr[t].pool0
      /\ sys_modules = thr[t].mods0

\* The request for pkg.Base.Inner on a set that declares pkg.Base, after
\* files had been registered.
C16_Witness ==
  /\ DecodeDone(Caller)
  /\ TypeName(Caller) = <<"pkg", ".", "Base", ".", "Inner">>
  /\ Sym(PKG, "Base") \in BundleSymbols(ReqSet(Caller))
  /\ thr[Caller].pool0 # BuildTimeFiles
  /\ thr[Caller].result.kind = "ValueError:message"

\* The encode request of thread t has ended.
EncodeDone(t) == Done(t) /\ thr[t].req.op = "encode"

(***************************************************************************)
(* C17: serialize_return_value_message(None, name) returns None for every  *)
(* expected name, and a call that returns bytes returns the serialized Any *)
(* of a message, which holds the type url of the message and so is neither *)
(* None nor empty.                                                         *)
(***************************************************************************)
C17_NoneEncodesToNone ==
  \A t \in Threads :
    EncodeDone(t) =>
      /\ thr[t].req.arg = NoValue =>
           thr[t].result = [kind |-> "ok", value |-> NoValue]
      /\ (thr[t].req.arg # NoValue /\ thr[t].result.kind = "ok") =>
           /\ thr[t].result.value # NoValue
           /\ thr[t].result.value.type_url # <<>>

\* None was returned for a message without package, after modules had
\* been made from a file descriptor set.
C17_Witness ==
  /\ EncodeDone(Caller)
  /\ thr[Caller].req.arg = NoValue
  /\ thr[Caller].req.name = Sym(<<>>, "Bare")
  /\ thr[Caller].mods0 # BuildTimeModules
  /\ thr[Caller].result.value = NoValue

(***************************************************************************)
(* C18: serialize_return_value_message ends with ValueError, and returns   *)
(* nothing, when the value is no message and when it is a message whose    *)
(* full name is not the expected one.                                      *)
(***************************************************************************)
C18_WrongTypeRefused ==
  \A t \in Threads :
    (/\ EncodeDone(t)
     /\ thr[t].req.arg # NoValue
     /\ \/ thr[t].req.arg = NotAMessage
        \/ thr[t].req.arg.full_name # thr[t].req.name) =>
      /\ thr[t].result.kind =
           (IF thr[t].req.arg = NotAMessage
            THEN "ValueError:not a message" ELSE "ValueError:wrong type")
      /\ thr[t].result.value = NoValue

\* A message of a class made from a file descriptor set was returned where
\* another type was expected.
C18_Witness ==
  /\ EncodeDone(Caller)
  /\ thr[Caller].req.arg \notin {NoValue, NotAMessage}
  /\ thr[Caller].req.arg.module >= 1
  /\ thr[Caller].req.arg.full_name # thr[Caller].req.name
  /\ thr[Caller].result.kind = "ValueError:wrong type"

\* The decode request of thread t was made with the bytes of a message of
\* a class that was made from a file of the request's set: the module of
\* the class is in sys.modules, was built by import_from_file_descriptor_set
\* and has the descriptor of a file of the set that declares the type.
RoundTrip(t) ==
  /\ DecodeDone(t)
  /\ thr[t].prev.kind = "encoded"
  /\ thr[t].prev.value.module >= 1
  /\ \E m \in thr[t].mods0 : \E g \in ReqFiles(t) :
       /\ m.id = thr[t].prev.value.module
       /\ thr[t].prev.value.full_name \in FullNames(m.DESCRIPTOR)
       /\ m.DESCRIPTOR.name = g.name
       /\ m.DESCRIPTOR.package = g.package
       /\ m.DESCRIPTOR.message_type = g.message_type

(***************************************************************************)
(* C19: a message of a class made from a file descriptor set, serialized   *)
(* with its own full name and unpacked with the same set, comes back as a  *)
(* message equal to it: the same class and the same field.                 *)
(***************************************************************************)
C19_RoundTrip ==
  \A t \in Threads :
    RoundTrip(t) =>
      /\ thr[t].result.kind = "ok"
      /\ thr[t].result.value = thr[t].prev.value

\* The activations of import_from_file_descriptor_set below the top-level
\* call of the request of thread t.
Nested(t) == Len(thr[t].stack) - 1

(***************************************************************************)
(* C20: a load request never has more nested activations of                *)
(* import_from_file_descriptor_set than its set has files, also when a     *)
(* file is requested again while it is being resolved, and it does not end *)
(* by running into the recursion limit of the interpreter.                 *)
(***************************************************************************)
C20_NestingBounded ==
  \A t \in Threads :
    /\ (thr[t].phase = "run" /\ thr[t].req.op = "load") =>
         Nested(t) <= Len(ReqSet(t))
    /\ LoadDone(t) => thr[t].result.kind # "RecursionError"

\* The maps of the request of thread t: symbol_to_file of the caller's set
\* in the pool as the request found it, and path_to_default_path from it.
RequestSymbols(t) == _create_symbol_to_file(ReqSet(t), thr[t].pool0)

RequestPaths(t) == _create_default_paths(ReqSet(t), RequestSymbols(t)).dict

(***************************************************************************)
(* C21: in every activation of a load or decode request that holds maps,   *)
(* symbol_to_file is the one computed from the caller's set and the pool   *)
(* as it was when the request began, and path_to_default_path the one      *)
(* computed from it; every nested activation is called with these maps     *)
(* and never computes its own, whatever was added to the pool since.       *)
(***************************************************************************)
C21_MapsComputedOnce ==
  \A t \in Threads :
    thr[t].phase = "run" =>
      \A i \in 1..Len(thr[t].stack) :
        /\ i > 1 => thr[t].stack[i].have_maps
        /\ thr[t].stack[i].have_maps =>
             /\ thr[t].stack[i].symbol_to_file = RequestSymbols(t)
             /\ thr[t].stack[i].path_to_default_path = RequestPaths(t)

\* A nested activation is about to prepare after files were added to the
\* pool in the same request, and the maps computed now would be other ones.
C21_Witness ==
  /\ Running(Caller, "prepare")
  /\ Len(thr[Caller].stack) >= 2
  /\ pool # thr[Caller].pool0
  /\ _create_symbol_to_file(ReqSet(Caller), pool) # RequestSymbols(Caller)

\* The path the caller's file g stands for under symbol_to_file: the pool's
\* file of the first symbol of g that symbol_to_file holds, and g's own name
\* when it holds none.
FirstKnownPath(g, symbol_to_file) ==
  LET hits == {k \in 1..Len(SymbolFields(g)) :
                 _proto_full_name(g.package, SymbolFields(g)[k])
                   \in DOMAIN symbol_to_file}
      k0 == CHOOSE k \in hits : \A j \in hits : k <= j
  IN IF hits = {} THEN g.name
     ELSE symbol_to_file[_proto_full_name(g.package, SymbolFields(g)[k0])]

(***************************************************************************)
(* C22: the path_to_default_path that _create_default_paths returned for   *)
(* the caller's set maps the name of every file of the set to the pool's   *)
(* path of the file's first known symbol, and to the file's own name when  *)
(* no symbol of it is known, in whatever order the files stand in the set. *)
(***************************************************************************)
C22_EveryFileMapped ==
  \A t \in Threads :
    thr[t].phase = "run" =>
      \A i \in 1..Len(thr[t].stack) :
        thr[t].stack[i].have_maps =>
          \A g \in ReqFiles(t) :
            thr[t].stack[i].path_to_default_path[g.name]
              = FirstKnownPath(g, thr[t].stack[i].symbol_to_file)

\* The top-level activation of the request of thread t has rewritten the
\* caller's set.
Rewritten(t) ==
  /\ thr[t].phase = "run"
  /\ thr[t].stack[1].have_maps
  /\ thr[t].stack[1].pc \notin {"start", "prepare"}

\* The canonical paths of the files of the caller's set.
CanonicalPaths(t) ==
  {FirstKnownPath(g, thr[t].stack[1].symbol_to_file) : g \in ReqFiles(t)}

(***************************************************************************)
(* C23: the set that _create_compatible_file_descriptor_set makes of the   *)
(* caller's set has the same files in the same order, each with its name   *)
(* and its dependencies replaced by their entries in path_to_default_path  *)
(* and nothing else changed; the name of every file is then the canonical  *)
(* path of that file and every dependency the canonical path of a file of  *)
(* the set.                                                                *)
(***************************************************************************)
C23_RewrittenSetCanonical ==
  \A t \in Threads :
    Rewritten(t) =>
      LET new == thr[t].stack[1].file_descriptor_set
          old == ReqSet(t)
          path_to_default_path == thr[t].stack[1].path_to_default_path
      IN /\ Len(new) = Len(old)
         /\ \A k \in 1..Len(old) :
              /\ new[k] =
                   [old[k] EXCEPT
                      !.name = path_to_default_path[old[k].name],
                      !.dependency =
                        [i \in 1..Len(old[k].dependency) |->
                           path_to_default_path[old[k].dependency[i]]]]
              /\ new[k].name =
                   FirstKnownPath(old[k], thr[t].stack[1].symbol_to_file)
              /\ Range(new[k].dependency) \subseteq CanonicalPaths(t)

\* The request of thread t has registered something.
HasRegistered(t) ==
  \/ thr[t].log # <<>>
  \/ pool # thr[t].pool0
  \/ sys_modules # thr[t].mods0

(***************************************************************************)
(* C24: while a load or decode request runs, nothing is added to the pool  *)
(* or to sys.modules before path_to_default_path holds an entry for every  *)
(* name and dependency of the caller's set and the set of the top-level    *)
(* activation is the caller's set with every name and dependency replaced; *)
(* a request that ends with the TypeError of _create_default_paths or the  *)
(* KeyError of _create_compatible_file_descriptor_set leaves the pool and  *)
(* sys.modules as it found them.                                           *)
(***************************************************************************)
C24_RewriteBeforeRegistration ==
  \A t \in Threads :
    /\ (thr[t].phase = "run" /\ HasRegistered(t)) =>
         /\ thr[t].stack[1].have_maps
         /\ CompatibleKeys(ReqSet(t)) \subseteq DOMAIN RequestPaths(t)
         /\ thr[t].stack[1].file_descriptor_set =
              [k \in 1..Len(ReqSet(t)) |->
                 CompatibleFile(ReqSet(t)[k], RequestPaths(t))]
    /\ (Done(t) /\ thr[t].result.kind \in {"TypeError:paths", "KeyError"}) =>
         ~HasRegistered(t)

\* The rewrite failed on a set that holds dep.proto, which the request asked
\* for and the pool did not hold, after earlier requests had registered files.
C24_Witness ==
  /\ LoadDone(Caller)
  /\ thr[Caller].result.kind = "KeyError"
  /\ thr[Caller].req.name = <<"dep", "_pb2">>
  /\ FDep \in ReqFiles(Caller)
  /\ FDep \notin thr[Caller].pool0
  /\ thr[Caller].pool0 # BuildTimeFiles

\* The pool held a top-level symbol of the caller's file g when the request
\* of thread t began.
KnownFile(t, g) == FullNames(g) \cap PoolSymbols(thr[t].pool0) # {}

(***************************************************************************)
(* C25: in a load request on a set the loader can work with, a file of the *)
(* set with a symbol that the pool already holds is not added to the pool, *)
(* and a request for the module of that file returns the module that was   *)
(* already registered for the pool's file of its first known symbol.       *)
(***************************************************************************)
C25_KnownFileServedFromRegistry ==
  \A t \in Threads :
    (LoadDone(t) /\ SetConsistent(t)) =>
      \A g \in ReqFiles(t) :
        KnownFile(t, g) =>
          /\ \A f \in pool \ thr[t].pool0 : FullNames(f) \cap FullNames(g) = {}
          /\ thr[t].req.name = _to_proto_module(g.name) =>
               /\ thr[t].result.kind = "ok"
               /\ thr[t].result.value \in thr[t].mods0
               /\ thr[t].result.value.DESCRIPTOR.name =
                    FirstKnownPath(g, RequestSymbols(t))

(***************************************************************************)
(* C26: a load request for a module that the regular import finds returns  *)
(* that module, whatever the set holds under its path, and leaves the pool *)
(* and sys.modules alone; and no activation, top-level or nested, goes on  *)
(* to the maps, the rewrite and the set when its module can be imported.   *)
(***************************************************************************)
C26_ImportedModuleReturnedAtOnce ==
  \A t \in Threads :
    /\ (/\ LoadDone(t)
        /\ EndsWith(thr[t].req.name, <<"_pb2">>)
        /\ Importable(thr[t].mods0, thr[t].req.name)) =>
         /\ thr[t].result.kind = "ok"
         /\ thr[t].result.value \in thr[t].mods0
         /\ thr[t].result.value.name = thr[t].req.name
         /\ ~HasRegistered(t)
    /\ thr[t].phase = "run" =>
         \A i \in 1..Len(thr[t].stack) :
           thr[t].stack[i].pc # "start" =>
             ~Importable(sys_modules, thr[t].stack[i].module_name)

\* The set holds a file of the requested path with another content than the
\* file of the module that was returned.
C26_Witness ==
  /\ LoadDone(Caller)
  /\ thr[Caller].result.kind = "ok"
  /\ thr[Caller].result.value \in thr[Caller].mods0
  /\ \E g \in ReqFiles(Caller) :
       /\ g.name = _to_proto_filename(thr[Caller].req.name)
       /\ g.name = thr[Caller].result.value.DESCRIPTOR.name
       /\ g.message_type # thr[Caller].result.value.DESCRIPTOR.message_type

\* Thread t is at the regular import of an activation (the cache check).
AtCacheCheck(t) == thr[t].phase = "run" /\ Top(t).pc = "start"

(***************************************************************************)
(* C27: a file and its module are registered as one step: whenever an      *)
(* activation makes its cache check, the module of every file of the pool  *)
(* can be imported, so that no request finds a path in the pool whose      *)
(* module is missing.                                                      *)
(***************************************************************************)
C27_FileAndModuleTogether ==
  \A t \in Threads :
    AtCacheCheck(t) =>
      \A f \in pool : Importable(sys_modules, _to_proto_module(f.name))

(***************************************************************************)
(* C28: the set that a nested activation has after applying                *)
(* path_to_default_path to the set it was called with is the set of the    *)
(* top-level activation: applying the map again changes no name and no     *)
(* dependency.                                                             *)
(***************************************************************************)
C28_RewriteIdempotent ==
  \A t \in Threads :
    thr[t].phase = "run" =>
      \A i \in 2..Len(thr[t].stack) :
        thr[t].stack[i].pc \notin {"start", "prepare"} =>
          thr[t].stack[i].file_descriptor_set =
            thr[t].stack[1].file_descriptor_set

(***************************************************************************)
(* C29: from the start of a load or decode request to its end, with a      *)
(* module or with an exception, the file descriptor set of the caller is   *)
(* what the caller passed: names and dependencies are changed in a copy.   *)
(***************************************************************************)
C29_CallerSetUntouched ==
  \A t \in Threads :
    thr[t].req.op \in {"load", "decode"} => thr[t].caller_set = ReqSet(t)

\* A request has ended with a module of a set in which the rewrite changed
\* a name.
C29_Witness ==
  /\ LoadDone(Caller)
  /\ thr[Caller].result.kind = "ok"
  /\ thr[Caller].log # <<>>
  /\ \E g \in ReqFiles(Caller) :
       FirstKnownPath(g, RequestSymbols(Caller)) # g.name

\* The dependency that the activation below activation i of thread t was
\* importing when it called activation i.
CalledFor(t, i) ==
  thr[t].stack[i - 1].file_descriptor_proto.dependency[thr[t].stack[i - 1].dep_i - 1]

(***************************************************************************)
(* C30: the file name made from the module name made from a path is the    *)
(* path again: a nested activation looks for the file named as the         *)
(* dependency it was called for, the activation of a decode request looks  *)
(* for a file that declares the type; and the module name made from the    *)
(* file name of a load request's module name ending with _pb2 is that      *)
(* module name.                                                            *)
(***************************************************************************)
C30_PathModuleRoundTrip ==
  \A t \in Threads :
    thr[t].phase = "run" =>
      /\ \A i \in 2..Len(thr[t].stack) :
           _to_proto_filename(thr[t].stack[i].module_name) = CalledFor(t, i)
      /\ thr[t].req.op = "decode" =>
           \E g \in ReqFiles(t) :
             /\ TypeName(t) \in FullNames(g)
             /\ _to_proto_filename(thr[t].stack[1].module_name) = g.name
      /\ (thr[t].req.op = "load" /\ EndsWith(thr[t].req.name, <<"_pb2">>)) =>
           _to_proto_module(_to_proto_filename(thr[t].req.name))
             = thr[t].req.name

====
